---- MODULE Spec2Model ----
(***************************************************************************)
(* IntlTelDirective (src/intl-tel.directive.ts): an Angular directive that *)
(* binds an <input> element to one intl-tel-input widget instance.         *)
(*                                                                         *)
(* The model holds the directive's fields, the decorated element (text and *)
(* attributes), the widget instances the library has created for it, the   *)
(* host component's bound properties, and a record of what the last        *)
(* handler did (the calls it made and the values it emitted).              *)
(***************************************************************************)
EXTENDS Integers, Sequences, FiniteSets

(* ------------------------------ bounds -------------------------------- *)

\* Widget instances ever created for the element.
MaxInstances == 2

\* Characters in the field's text.
MaxLen == 1

\* The largest keyCode of a keyboard event.
MaxKeyCode == 255

\* Characters in a clipboard or dragged text given to the filters.
MaxClip == 3

\* The largest error code the widget's getValidationError answers with.
MaxErrorCode == 5

(* ------------------------- values and inputs --------------------------- *)

\* intlTelInputGlobals.getCountryData(): every country the library knows.
AllCountries == {"gb", "us", "de"}

\* A falsy options value (null, undefined, or the "" of a bare attribute).
NullOptions == [defined |-> FALSE, initialCountry |-> "", onlyCountries |-> {}]

\* The {} the directive passes when it holds no options.
EmptyOptions == [defined |-> TRUE, initialCountry |-> "", onlyCountries |-> {}]

\* The options objects the host binds to [intlTel].
OptionValues ==
    { NullOptions,
      [defined |-> TRUE, initialCountry |-> "gb", onlyCountries |-> {}],
      [defined |-> TRUE, initialCountry |-> "us", onlyCountries |-> {"gb", "us"}] }

\* The values the host binds to [activeCountry]; "" stands for undefined.
CodeValues == {"", "gb", "GB", "de", "zz"}

\* The values the host binds to [numbersOnly].
NumbersOnlyValues == {"true", "false"}

Chars == {"1", "a"}

Digits == {"0", "1", "2", "3", "4", "5", "6", "7", "8", "9"}

\* The texts a paste or a drop carries.
Clips == { <<"1">>, <<"a", "1">> }

\* Key presses: Backspace (8), Shift (16), "1" (49) and Ctrl+V (86).
KeyPresses ==
    { [keyCode |-> k, shiftKey |-> (k = 16), ctrlKey |-> FALSE, metaKey |-> FALSE] :
        k \in {8, 16, 49} }
    \cup { [keyCode |-> 86, shiftKey |-> FALSE, ctrlKey |-> TRUE, metaKey |-> FALSE] }

(* --------------------------- pure functions ---------------------------- *)

\* String.prototype.toLowerCase on the country codes of the model.
ToLowerCase(code) ==
    CASE code = "GB" -> "gb"
      [] code = "US" -> "us"
      [] code = "DE" -> "de"
      [] code = "ZZ" -> "zz"
      [] OTHER -> code

\* text.replace(/\D/g, ''): the digits of the text, in order.
RECURSIVE StripNonDigits(_)
StripNonDigits(t) ==
    IF t = <<>> THEN <<>>
    ELSE IF Head(t) \in Digits
         THEN <<Head(t)>> \o StripNonDigits(Tail(t))
         ELSE StripNonDigits(Tail(t))

\* How often call c occurs in a handler's call trace.
Count(c, calls) == Cardinality({ i \in 1..Len(calls) : calls[i] = c })

\* `if (x)` on an options value; on a country code; on numbersOnly (true,
\* or a non-empty string).
TruthyOptions(o) == o.defined

TruthyCode(c) == c # ""

TruthyFlag(n) == n \in {"true", "string"}

(* ----------------------- the widget (intl-tel-input) -------------------- *)

DialCode(iso2) ==
    CASE iso2 = "gb" -> "44"
      [] iso2 = "us" -> "1"
      [] iso2 = "de" -> "49"
      [] OTHER -> ""

\* The countries a widget offers: onlyCountries when given, else all.
WidgetCountries(o) ==
    IF o.onlyCountries = {} THEN AllCountries ELSE o.onlyCountries

\* The country a new widget selects: initialCountry when it offers it, else
\* its default (the first preferred country it offers).
InitialCountry(o) ==
    LET cs == WidgetCountries(o) IN
    IF o.initialCountry \in cs THEN o.initialCountry
    ELSE IF "us" \in cs THEN "us"
    ELSE IF "gb" \in cs THEN "gb"
    ELSE CHOOSE c \in cs : TRUE

\* intlTelInput(element, options): a new live instance.
NewInstance(o) ==
    [live |-> TRUE, destroys |-> 0,
     countries |-> WidgetCountries(o), country |-> InitialCountry(o)]

\* instance.setCountry(code) without the check for the country selected
\* already: every call for a country it offers dispatches countrychange.
WidgetSetCountryAlways(w, code) ==
    IF code \notin w.countries
    THEN [widget |-> w, changed |-> FALSE, threw |-> "Error"]
    ELSE [widget |-> [w EXCEPT !.country = code], changed |-> TRUE, threw |-> "none"]

\* instance.setCountry(code): nothing when code is selected already; else
\* the country is selected and countrychange is dispatched; a code the
\* widget does not offer makes it throw ("No country data for ...").
WidgetSetCountry(w, code) ==
    IF code = w.country THEN [widget |-> w, changed |-> FALSE, threw |-> "none"]
    ELSE IF code \notin w.countries
    THEN [widget |-> w, changed |-> FALSE, threw |-> "Error"]
    ELSE [widget |-> [w EXCEPT !.country = code], changed |-> TRUE, threw |-> "none"]

\* instance.destroy().
Destroyed(w) ==
    [live |-> FALSE, destroys |-> w.destroys + 1, countries |-> {}, country |-> ""]

\* instance.getSelectedCountryData().
GetSelectedCountryData(w) == [iso2 |-> w.country, dialCode |-> DialCode(w.country)]

\* instance.getNumber(): the digits of the field in international format.
GetNumber(w, t) ==
    LET d == StripNonDigits(t) IN
    IF d = <<>> THEN <<>> ELSE <<"+", DialCode(w.country)>> \o d

\* instance.getValidationError(): the library's verdict on the field's
\* number: 4 (not a number) without digits, 2 (too short) for one digit,
\* 0 (possible) from two digits on.
GetValidationError(w, t) ==
    LET d == StripNonDigits(t) IN
    IF d = <<>> THEN 4 ELSE IF Len(d) < 2 THEN 2 ELSE 0

(* ------------------------------- state --------------------------------- *)

VARIABLES
    phase,                 \* constructed, changed, attached, detached
    intlTelOptions,        \* @Input('intlTel')
    numbersOnly,           \* @Input('numbersOnly')
    activeCountry,         \* @Input('activeCountry')
    intlTelInputInstance,  \* 0 (undefined) or the index of an instance
    _value,                \* <<>> (undefined) or <<the text last observed>>
    instances,             \* every widget instance created for the element
    text,                  \* elementRef.nativeElement.value
    attrs,                 \* the element's attributes
    hostCountry,           \* the host's property bound to [activeCountry]
    twoWay,                \* [(activeCountry)] rather than [activeCountry]
    last,                  \* what the last handler did
    dirty,                 \* the text or the country changed and no onChange
                           \* payload was emitted since
    request                \* the host's last change of the active country

vars == <<phase, intlTelOptions, numbersOnly, activeCountry,
          intlTelInputInstance, _value, instances, text, attrs,
          hostCountry, twoWay, last, dirty, request>>

directive == <<intlTelOptions, numbersOnly, activeCountry,
               intlTelInputInstance, _value>>

element == <<text, attrs>>

\* The instance the directive holds.
Widget == instances[intlTelInputInstance]

\* The instances that were created and not destroyed.
Live == { i \in 1..Len(instances) : instances[i].live }

\* getValidationError(): the name of the code in the directive's table.
getValidationError(code) ==
    CASE code = 0 -> "IS_POSSIBLE"
      [] code = 1 -> "INVALID_COUNTRY_CODE"
      [] code = 2 -> "TOO_SHORT"
      [] code = 3 -> "TOO_LONG"
      [] code = 4 -> "NOT_A_NUMBER"
      [] OTHER -> "null"

\* The payload every onChange.emit of the directive builds.
Payload(w, t) ==
    [countryData |-> GetSelectedCountryData(w),
     phoneNumber |-> GetNumber(w, t),
     validationError |-> getValidationError(GetValidationError(w, t))]

\* The record of a handler that did nothing.
Idle(op) ==
    [op |-> op, calls |-> <<>>, onChange |-> <<>>, country |-> <<>>,
     threw |-> "none", prevented |-> FALSE, inserted |-> <<>>,
     optionsChanged |-> FALSE, countryChanged |-> FALSE]

NoRequest == [code |-> "", open |-> FALSE, setCalls |-> 0, changes |-> 0]

Init ==
    /\ phase = "constructed"
    /\ intlTelOptions = NullOptions
    /\ numbersOnly = "false"
    /\ activeCountry = ""
    /\ intlTelInputInstance = 0
    /\ _value = <<>>
    /\ instances = <<>>
    /\ text = <<>>
    /\ attrs = [type |-> "text", pattern |-> "", maxlength |-> "", placeholder |-> FALSE]
    /\ hostCountry = ""
    /\ twoWay \in BOOLEAN
    /\ last = Idle("constructor")
    /\ dirty = FALSE
    /\ request = NoRequest

(* ------------------------------ handlers ------------------------------- *)

\* What a handler's reads of the widget look like in its call trace.
ReadCalls == <<"getSelectedCountryData", "getNumber", "getValidationError">>

\* countryChangeListener emitting the country code before the payload.
countryChangeListenerCodeFirst(w, t) ==
    [calls |-> ReadCalls \o <<"emit activeCountryChange", "emit onChange">>,
     onChange |-> <<Payload(w, t)>>,
     country |-> <<GetSelectedCountryData(w).iso2>>]

\* countryChangeListener, for the widget w that dispatched countrychange.
countryChangeListener(w, t) ==
    [calls |-> ReadCalls \o <<"emit onChange", "emit activeCountryChange">>,
     onChange |-> <<Payload(w, t)>>,
     country |-> <<GetSelectedCountryData(w).iso2>>]

\* The guard of the first branch without its firstChange test.
OptionsBranchAnyChange(ch) ==
    /\ ch.options.present
    /\ TruthyOptions(ch.options.currentValue)

\* The guards of ngOnChanges' two branches.
OptionsBranch(ch) ==
    /\ ch.options.present
    /\ TruthyOptions(ch.options.currentValue)
    /\ ch.options.firstChange = FALSE

CountryBranch(ch) ==
    /\ ch.country.present
    /\ TruthyCode(ch.country.currentValue)
    /\ ch.country.firstChange = FALSE

\* The first branch of ngOnChanges without its destroy() call.
RecreateWithoutDestroy(ch) ==
    IF ~OptionsBranch(ch) \/ intlTelInputInstance = 0
    THEN [instances |-> instances, ref |-> intlTelInputInstance, attrs |-> attrs,
          calls |-> <<>>, onChange |-> <<>>, threw |-> "none"]
    ELSE LET w == NewInstance(ch.options.currentValue)
         IN [instances |-> Append(instances, w),
             ref |-> Len(instances) + 1,
             attrs |-> [attrs EXCEPT !.placeholder = TRUE],
             calls |-> <<"removeAttribute placeholder", "intlTelInput">>
                       \o ReadCalls \o <<"emit onChange">>,
             onChange |-> <<Payload(w, text)>>,
             threw |-> "none"]

\* The first branch of ngOnChanges clearing the placeholder before it
\* destroys the instance.
RecreatePlaceholderFirst(ch) ==
    IF ~OptionsBranch(ch)
    THEN [instances |-> instances, ref |-> intlTelInputInstance, attrs |-> attrs,
          calls |-> <<>>, onChange |-> <<>>, threw |-> "none"]
    ELSE IF intlTelInputInstance = 0
    THEN [instances |-> instances, ref |-> intlTelInputInstance, attrs |-> attrs,
          calls |-> <<>>, onChange |-> <<>>, threw |-> "TypeError"]
    ELSE LET w == NewInstance(ch.options.currentValue)
             destroyed == [instances EXCEPT ![intlTelInputInstance] = Destroyed(@)]
         IN [instances |-> Append(destroyed, w),
             ref |-> Len(instances) + 1,
             attrs |-> [attrs EXCEPT !.placeholder = TRUE],
             calls |-> <<"removeAttribute placeholder", "destroy", "intlTelInput">>
                       \o ReadCalls \o <<"emit onChange">>,
             onChange |-> <<Payload(w, text)>>,
             threw |-> "none"]

\* The first branch of ngOnChanges: destroy, clear the placeholder,
\* re-create with the new options, emit a payload read from the new instance.
RecreateWidget(ch) ==
    IF ~OptionsBranch(ch)
    THEN [instances |-> instances, ref |-> intlTelInputInstance, attrs |-> attrs,
          calls |-> <<>>, onChange |-> <<>>, threw |-> "none"]
    ELSE IF intlTelInputInstance = 0
    THEN [instances |-> instances, ref |-> intlTelInputInstance, attrs |-> attrs,
          calls |-> <<>>, onChange |-> <<>>, threw |-> "TypeError"]
    ELSE LET w == NewInstance(ch.options.currentValue)
             destroyed == [instances EXCEPT ![intlTelInputInstance] = Destroyed(@)]
         IN [instances |-> Append(destroyed, w),
             ref |-> Len(instances) + 1,
             attrs |-> [attrs EXCEPT !.placeholder = TRUE],
             calls |-> <<"destroy", "removeAttribute placeholder", "intlTelInput">>
                       \o ReadCalls \o <<"emit onChange">>,
             onChange |-> <<Payload(w, text)>>,
             threw |-> "none"]

\* setCountry(countryCode) without its toLowerCase(): the code is looked up
\* and passed on as given.
setCountryAsGiven(s, countryCode) ==
    LET none == [instances |-> s.instances, calls |-> <<>>,
                 onChange |-> <<>>, country |-> <<>>, threw |-> "none"]
    IN
    IF s.ref = 0 THEN none
    ELSE IF countryCode \notin AllCountries
    THEN [none EXCEPT !.calls = <<"getCountryData">>]
    ELSE LET r == WidgetSetCountry(s.instances[s.ref], countryCode)
             l == countryChangeListener(r.widget, text)
         IN IF r.changed
            THEN [instances |-> [s.instances EXCEPT ![s.ref] = r.widget],
                  calls |-> <<"getCountryData", "setCountry">> \o l.calls,
                  onChange |-> l.onChange,
                  country |-> l.country,
                  threw |-> "none"]
            ELSE [none EXCEPT !.calls = <<"getCountryData", "setCountry">>,
                              !.threw = r.threw]

\* setCountry(countryCode) of the directive, on the state s the first branch
\* left. The widget dispatches countrychange from within its setCountry, so
\* countryChangeListener runs before setCountry returns.
setCountry(s, countryCode) ==
    LET none == [instances |-> s.instances, calls |-> <<>>,
                 onChange |-> <<>>, country |-> <<>>, threw |-> "none"]
        code == ToLowerCase(countryCode)
    IN
    IF s.ref = 0 THEN none
    ELSE IF code \notin AllCountries
    THEN [none EXCEPT !.calls = <<"getCountryData">>]
    ELSE LET r == WidgetSetCountry(s.instances[s.ref], code)
             l == countryChangeListener(r.widget, text)
         IN IF r.changed
            THEN [instances |-> [s.instances EXCEPT ![s.ref] = r.widget],
                  calls |-> <<"getCountryData", "setCountry">> \o l.calls,
                  onChange |-> l.onChange,
                  country |-> l.country,
                  threw |-> "none"]
            ELSE [none EXCEPT !.calls = <<"getCountryData", "setCountry">>,
                              !.threw = r.threw]

\* ngOnChanges(changes) with its branches swapped: the country is set on
\* the instance held, then the widget is re-created.
ngOnChangesCountryFirst(ch) ==
    LET none == [instances |-> instances, calls |-> <<>>,
                 onChange |-> <<>>, country |-> <<>>, threw |-> "none"]
        b == IF CountryBranch(ch)
             THEN setCountry([instances |-> instances, ref |-> intlTelInputInstance],
                             ch.country.currentValue)
             ELSE none
        a == RecreateWidget(ch)
    IN IF b.threw # "none" \/ ~OptionsBranch(ch)
       THEN [instances |-> b.instances,
             ref |-> intlTelInputInstance,
             attrs |-> attrs,
             calls |-> b.calls,
             onChange |-> b.onChange,
             country |-> b.country,
             threw |-> b.threw]
       ELSE [instances |-> a.instances,
             ref |-> a.ref,
             attrs |-> a.attrs,
             calls |-> b.calls \o a.calls,
             onChange |-> b.onChange \o a.onChange,
             country |-> b.country,
             threw |-> a.threw]

\* ngOnChanges(changes): both branches, in the order of the code.
ngOnChanges(ch) ==
    LET a == RecreateWidget(ch)
        none == [instances |-> a.instances, calls |-> <<>>,
                 onChange |-> <<>>, country |-> <<>>, threw |-> "none"]
        b == IF a.threw = "none" /\ CountryBranch(ch)
             THEN setCountry(a, ch.country.currentValue)
             ELSE none
    IN [instances |-> b.instances,
        ref |-> a.ref,
        attrs |-> a.attrs,
        calls |-> a.calls \o b.calls,
        onChange |-> a.onChange \o b.onChange,
        country |-> b.country,
        threw |-> IF a.threw # "none" THEN a.threw ELSE b.threw]

\* Every payload is read from the widget and the field as it is emitted, so
\* an emission reports every change made before it.
Reported(emitted) == IF emitted # <<>> THEN FALSE ELSE dirty

\* The host's property after a pass that delivered c: with a two-way
\* binding it takes the code activeCountryChange emitted.
WriteBack(c, emitted) ==
    IF twoWay /\ emitted # <<>> THEN emitted[Len(emitted)] ELSE c

(* --------------------------- lifecycle actions -------------------------- *)

\* The first change detection pass delivers every bound input with
\* firstChange = true, before ngOnInit.
NgOnChangesFirst ==
    /\ phase = "constructed"
    /\ \E n \in NumbersOnlyValues, o \in OptionValues, c \in {"", "gb"} :
        LET ch == [options |-> [present |-> TRUE, currentValue |-> o,
                                firstChange |-> TRUE],
                   country |-> [present |-> TRUE, currentValue |-> c,
                                firstChange |-> TRUE]]
        IN \E r \in {ngOnChanges(ch)} :
           /\ numbersOnly' = n
           /\ intlTelOptions' = o
           /\ activeCountry' = c
           /\ instances' = r.instances
           /\ intlTelInputInstance' = r.ref
           /\ attrs' = r.attrs
           /\ last' = [Idle("ngOnChanges") EXCEPT
                         !.calls = r.calls, !.onChange = r.onChange,
                         !.country = r.country, !.threw = r.threw]
           /\ dirty' = Reported(r.onChange)
           /\ hostCountry' = WriteBack(c, r.country)
    /\ phase' = "changed"
    /\ request' = NoRequest
    /\ UNCHANGED <<_value, text, twoWay>>

\* ngOnInit.
NgOnInit ==
    /\ phase = "changed"
    /\ Len(instances) < MaxInstances
    /\ LET w == NewInstance(IF TruthyOptions(intlTelOptions)
                            THEN intlTelOptions ELSE EmptyOptions)
           constrain == TruthyFlag(numbersOnly)
       IN /\ attrs' = [type |-> IF constrain THEN "tel" ELSE attrs.type,
                       pattern |-> IF constrain THEN "d*" ELSE attrs.pattern,
                       maxlength |-> IF constrain THEN "15" ELSE attrs.maxlength,
                       placeholder |-> TRUE]
          /\ instances' = Append(instances, w)
          /\ intlTelInputInstance' = Len(instances) + 1
          /\ last' = [Idle("ngOnInit") EXCEPT
                        !.calls = (IF constrain
                                   THEN <<"setAttribute type", "setAttribute pattern",
                                          "setAttribute maxlength">>
                                   ELSE <<>>)
                                  \o <<"intlTelInput">> \o ReadCalls \o <<"emit onChange">>,
                        !.onChange = <<Payload(w, text)>>]
          /\ dirty' = FALSE
    /\ phase' = "attached"
    /\ request' = NoRequest
    /\ UNCHANGED <<intlTelOptions, numbersOnly, activeCountry, _value, text,
                   hostCountry, twoWay>>

\* A later change detection pass: the host's bound values are o and c, and
\* ngOnChanges gets those that differ from the values last delivered, with
\* firstChange = false. c is the value the host has just assigned, or the
\* code a two-way binding wrote back.
NgOnChanges ==
    /\ phase = "attached"
    /\ \E o \in OptionValues, c \in CodeValues \cup {hostCountry} :
        LET ch == [options |-> [present |-> o # intlTelOptions,
                                currentValue |-> o, firstChange |-> FALSE],
                   country |-> [present |-> c # activeCountry,
                                currentValue |-> c, firstChange |-> FALSE]]
            asked == c # hostCountry /\ c # activeCountry
        IN /\ ch.options.present \/ ch.country.present
           /\ OptionsBranch(ch) => Len(instances) < MaxInstances
           /\ \E r \in {ngOnChanges(ch)} :
              /\ intlTelOptions' = o
              /\ activeCountry' = c
              /\ instances' = r.instances
              /\ intlTelInputInstance' = r.ref
              /\ attrs' = r.attrs
              /\ last' = [Idle("ngOnChanges") EXCEPT
                            !.calls = r.calls, !.onChange = r.onChange,
                            !.country = r.country, !.threw = r.threw,
                            !.optionsChanged = ch.options.present,
                            !.countryChanged = ch.country.present]
              /\ dirty' = Reported(r.onChange)
              /\ hostCountry' = WriteBack(c, r.country)
              /\ request' =
                   IF asked
                   THEN [code |-> c, open |-> TRUE,
                         setCalls |-> Count("setCountry", r.calls),
                         changes |-> Len(r.country)]
                   ELSE IF request.open /\ ~ch.options.present
                   THEN [request EXCEPT
                           !.setCalls = @ + Count("setCountry", r.calls),
                           !.changes = @ + Len(r.country)]
                   ELSE NoRequest
    /\ UNCHANGED <<phase, numbersOnly, _value, text, twoWay>>

\* ngOnDestroy: this.intlTelInputInstance.destroy(), whatever the field holds.
NgOnDestroy ==
    /\ phase \in {"constructed", "attached"}
    /\ IF intlTelInputInstance = 0
       THEN /\ last' = [Idle("ngOnDestroy") EXCEPT !.threw = "TypeError"]
            /\ UNCHANGED instances
       ELSE /\ last' = [Idle("ngOnDestroy") EXCEPT !.calls = <<"destroy">>]
            /\ instances' = [instances EXCEPT ![intlTelInputInstance] = Destroyed(@)]
    /\ phase' = "detached"
    /\ request' = NoRequest
    /\ UNCHANGED <<directive, element, hostCountry, twoWay, dirty>>

(* ------------------------------ DOM events ----------------------------- *)

\* The widget dispatches countrychange when the user picks another country
\* in its dropdown; countryChangeListener handles it.
CountryChange ==
    /\ phase = "attached"
    /\ \E c \in Widget.countries \ {Widget.country} :
        LET w == [Widget EXCEPT !.country = c]
            l == countryChangeListener(w, text)
        IN /\ instances' = [instances EXCEPT ![intlTelInputInstance] = w]
           /\ last' = [Idle("countrychange") EXCEPT
                         !.calls = l.calls, !.onChange = l.onChange,
                         !.country = l.country]
           /\ dirty' = Reported(l.onChange)
           /\ hostCountry' = WriteBack(hostCountry, l.country)
    /\ request' = NoRequest
    /\ UNCHANGED <<phase, directive, element, twoWay>>

\* keyDownListener: whether it calls event.preventDefault().
keyDownListener(n, e) ==
    IF \/ e.keyCode = 46
       \/ e.keyCode = 8
       \/ (e.keyCode = 65 /\ e.ctrlKey)
       \/ (e.keyCode = 67 /\ e.ctrlKey)
       \/ (e.keyCode = 86 /\ e.ctrlKey)
       \/ (e.keyCode = 88 /\ e.ctrlKey)
       \/ (e.keyCode = 65 /\ e.metaKey)
       \/ (e.keyCode = 67 /\ e.metaKey)
       \/ (e.keyCode = 86 /\ e.metaKey)
       \/ (e.keyCode = 88 /\ e.metaKey)
       \/ (e.keyCode >= 35 /\ e.keyCode <= 39)
    THEN FALSE
    ELSE /\ n = "true"
         /\ (e.shiftKey \/ (e.keyCode < 48 \/ e.keyCode > 57))
         /\ (e.keyCode < 96 \/ e.keyCode > 105)

\* The browser's default action for a key press that was not prevented:
\* Backspace removes the last character, an unshifted "1" appends it, the
\* other keys of the model leave the text alone.
DefaultAction(t, e) ==
    IF e.keyCode = 8 THEN (IF t = <<>> THEN t ELSE SubSeq(t, 1, Len(t) - 1))
    ELSE IF e.ctrlKey \/ e.metaKey \/ e.shiftKey THEN t
    ELSE IF e.keyCode = 49 THEN Append(t, "1")
    ELSE t

\* keydown: the listener, then the default action unless prevented.
KeyDown ==
    /\ phase = "attached"
    /\ \E e \in KeyPresses :
        LET prevented == keyDownListener(numbersOnly, e)
            t == IF prevented THEN text ELSE DefaultAction(text, e)
        IN /\ Len(t) <= MaxLen
           /\ text' = t
           /\ dirty' = (dirty \/ t # text)
           /\ last' = [Idle("keydown") EXCEPT
                         !.calls = IF prevented THEN <<"preventDefault">> ELSE <<>>,
                         !.prevented = prevented]
    /\ request' = NoRequest
    /\ UNCHANGED <<phase, directive, instances, attrs, hostCountry, twoWay>>

\* onValueChanged: what a keyup does, given the field's text t.
onValueChanged(t) ==
    IF <<t>> # _value
    THEN [value |-> <<t>>,
          calls |-> ReadCalls \o <<"emit onChange">>,
          onChange |-> <<Payload(Widget, t)>>]
    ELSE [value |-> _value, calls |-> <<>>, onChange |-> <<>>]

\* keyup.
KeyUp ==
    /\ phase = "attached"
    /\ LET r == onValueChanged(text)
       IN /\ _value' = r.value
          /\ last' = [Idle("keyup") EXCEPT !.calls = r.calls, !.onChange = r.onChange]
          /\ dirty' = Reported(r.onChange)
    /\ request' = NoRequest
    /\ UNCHANGED <<phase, intlTelOptions, numbersOnly, activeCountry,
                   intlTelInputInstance, instances, text, attrs, hostCountry, twoWay>>

\* pasteListener inserting the clipboard text as it is.
pasteListenerUnfiltered(n, clip) ==
    IF n = "false"
    THEN [prevented |-> FALSE, inserted |-> clip, calls |-> <<>>]
    ELSE [prevented |-> TRUE, inserted |-> clip,
          calls |-> <<"preventDefault", "getData", "insertText">>]

\* pasteListener: returns at once when numbersOnly === false (the browser
\* then pastes the clipboard text); else prevents the default paste and
\* inserts the digits of the clipboard text.
pasteListener(n, clip) ==
    IF n = "false"
    THEN [prevented |-> FALSE, inserted |-> clip, calls |-> <<>>]
    ELSE [prevented |-> TRUE, inserted |-> StripNonDigits(clip),
          calls |-> <<"preventDefault", "getData", "insertText">>]

\* dropListener focusing the field after the insertion.
dropListenerInsertFirst(n, data) ==
    IF n = "false"
    THEN [prevented |-> FALSE, inserted |-> data, calls |-> <<>>]
    ELSE [prevented |-> TRUE, inserted |-> StripNonDigits(data),
          calls |-> <<"preventDefault", "getData", "insertText", "focus">>]

\* dropListener: as pasteListener, and focuses the field before inserting.
dropListener(n, data) ==
    IF n = "false"
    THEN [prevented |-> FALSE, inserted |-> data, calls |-> <<>>]
    ELSE [prevented |-> TRUE, inserted |-> StripNonDigits(data),
          calls |-> <<"preventDefault", "getData", "focus", "insertText">>]

\* A paste or a drop that inserted r.inserted into the field.
Insert(op, r) ==
    /\ Len(text) + Len(r.inserted) <= MaxLen
    /\ text' = text \o r.inserted
    /\ dirty' = (dirty \/ r.inserted # <<>>)
    /\ last' = [Idle(op) EXCEPT !.calls = r.calls, !.prevented = r.prevented,
                                !.inserted = r.inserted]
    /\ request' = NoRequest
    /\ UNCHANGED <<phase, directive, instances, attrs, hostCountry, twoWay>>

Paste ==
    /\ phase = "attached"
    /\ \E clip \in Clips : Insert("paste", pasteListener(numbersOnly, clip))

Drop ==
    /\ phase = "attached"
    /\ \E data \in Clips : Insert("drop", dropListener(numbersOnly, data))

Next ==
    \/ NgOnChangesFirst
    \/ NgOnInit
    \/ NgOnChanges
    \/ NgOnDestroy
    \/ CountryChange
    \/ KeyDown
    \/ KeyUp
    \/ Paste
    \/ Drop

Spec == Init /\ [][Next]_vars

(* ------------------- the input filters as functions -------------------- *)

\* Every value [numbersOnly] can hold: true, false, undefined (a binding to
\* an unset property) and a non-empty string (numbersOnly="true" written as
\* a plain attribute).
FlagValues == {"true", "false", "undefined", "string"}

\* Every keyboard event keyDownListener tells apart.
KeyEvents ==
    [keyCode : 0..MaxKeyCode, shiftKey : BOOLEAN, ctrlKey : BOOLEAN, metaKey : BOOLEAN]

FilterChars == {"1", "2", "a"}

\* The clipboard and dragged texts of up to MaxClip characters.
FilterTexts == UNION { [1..n -> FilterChars] : n \in 0..MaxClip }

\* What the widget's getValidationError can answer: the code of the
\* library's table, or -99 when it cannot tell; a number it deems valid is
\* possible (0).
Verdicts ==
    { v \in [valid : BOOLEAN, code : {-99} \cup 0..MaxErrorCode] :
        v.valid => v.code = 0 }

\* The record of a listener applied to one input.
Applied(op, input, r) ==
    [op |-> op, input |-> input, calls |-> r.calls,
     prevented |-> r.prevented, inserted |-> r.inserted]

\* The directive after its first ngOnChanges, [numbersOnly] bound to any
\* value, no options and no active country.
FilterInit ==
    /\ phase = "changed"
    /\ intlTelOptions = NullOptions
    /\ numbersOnly \in FlagValues
    /\ activeCountry = ""
    /\ intlTelInputInstance = 0
    /\ _value = <<>>
    /\ instances = <<>>
    /\ text = <<>>
    /\ attrs = [type |-> "text", pattern |-> "", maxlength |-> "", placeholder |-> FALSE]
    /\ hostCountry = ""
    /\ twoWay = FALSE
    /\ last = Idle("ngOnChanges")
    /\ dirty = FALSE
    /\ request = NoRequest

\* The first event after attach. Each listener is a function of numbersOnly
\* and its event alone, so one event per run covers it.
FirstEvent == phase = "attached" /\ last.op = "ngOnInit"

FilterKeyDown ==
    /\ FirstEvent
    /\ \E e \in KeyEvents :
        LET prevented == keyDownListener(numbersOnly, e)
            t == IF prevented THEN text ELSE DefaultAction(text, e)
        IN /\ text' = t
           /\ dirty' = (t # text)
           /\ last' = Applied("keydown", e,
                         [calls |-> IF prevented THEN <<"preventDefault">> ELSE <<>>,
                          prevented |-> prevented, inserted |-> <<>>])
    /\ UNCHANGED <<phase, directive, instances, attrs, hostCountry, twoWay, request>>

FilterInsert(op, input, r) ==
    /\ text' = text \o r.inserted
    /\ dirty' = (r.inserted # <<>>)
    /\ last' = Applied(op, input, r)
    /\ UNCHANGED <<phase, directive, instances, attrs, hostCountry, twoWay, request>>

FilterPaste ==
    /\ FirstEvent
    /\ \E clip \in FilterTexts :
        FilterInsert("paste", clip, pasteListener(numbersOnly, clip))

FilterDrop ==
    /\ FirstEvent
    /\ \E data \in FilterTexts :
        FilterInsert("drop", data, dropListener(numbersOnly, data))

\* getValidationError() on the widget's answer v.
FilterValidation ==
    /\ FirstEvent
    /\ \E v \in Verdicts :
        last' = [op |-> "getValidationError", input |-> v,
                 calls |-> <<"getValidationError">>,
                 label |-> getValidationError(v.code)]
    /\ UNCHANGED <<phase, directive, instances, element, hostCountry, twoWay,
                   dirty, request>>

FilterNext ==
    \/ NgOnInit
    \/ FilterKeyDown
    \/ FilterPaste
    \/ FilterDrop
    \/ FilterValidation

FilterSpec == FilterInit /\ [][FilterNext]_vars

(* ------------------------------- claims -------------------------------- *)

\* C1: in every reachable state at most one widget instance is live
\* (created and not yet destroyed) for the element.
AtMostOneLiveInstance == Cardinality(Live) <= 1

\* C1 witness: the widget was re-created and one instance is live.
ReCreatedOnce ==
    /\ phase = "attached"
    /\ Len(instances) >= 2
    /\ Live = {intlTelInputInstance}

\* C2: a change of the options input after its first assignment, whatever
\* the new value, destroys the current instance once, creates one instance
\* and emits one payload (a country change in the same pass adds the
\* listener's own payload, one per code it emits).
OptionsChangeRecreates ==
    last.op = "ngOnChanges" /\ last.optionsChanged =>
        /\ Count("destroy", last.calls) = 1
        /\ Count("intlTelInput", last.calls) = 1
        /\ Len(last.onChange) = 1 + Len(last.country)

\* C3: an active-country input whose code the widget does not offer calls
\* no setCountry on the widget, emits nothing and raises no error.
UnofferedCodeIgnored ==
    last.op = "ngOnChanges" /\ last.countryChanged
      /\ ToLowerCase(activeCountry) \notin Widget.countries =>
        /\ Count("setCountry", last.calls) = 0
        /\ last.country = <<>>
        /\ Count("emit onChange", last.calls) = Count("intlTelInput", last.calls)
        /\ last.threw = "none"

\* The host's change of the active country has been delivered, nothing is
\* left to deliver, and the widget offers the code asked for.
RequestSettled ==
    /\ phase = "attached"
    /\ request.open
    /\ hostCountry = activeCountry
    /\ ToLowerCase(request.code) \in Widget.countries

\* C4 as claimed: once a change of the active-country input to a code the
\* widget offers, in any letter case, has settled, the widget selects the
\* lower-cased code and its setCountry was invoked exactly once, also when
\* the emitted code is written back through a two-way binding.
SetCountryInvokedOnce ==
    RequestSettled =>
        /\ Widget.country = ToLowerCase(request.code)
        /\ request.changes <= 1
        /\ request.setCalls = 1

\* C4 as amended: the widget selects the lower-cased code, its country
\* changing at most once; its setCountry is invoked exactly once, except
\* that a code given in upper case under a two-way binding that changed the
\* country is invoked a second time, with the lower-case code written back,
\* which changes nothing.
SetCountryInvokedOnceOrTwice ==
    RequestSettled =>
        /\ Widget.country = ToLowerCase(request.code)
        /\ request.changes <= 1
        /\ request.setCalls =
             IF twoWay /\ request.changes = 1
                /\ request.code # ToLowerCase(request.code)
             THEN 2 ELSE 1

\* C4 witness: a request for an upper-case code under a two-way binding has
\* settled after changing the widget's country.
UpperCaseRequestSettled ==
    /\ RequestSettled
    /\ twoWay
    /\ request.code = "GB"
    /\ request.changes = 1
    /\ Widget.country = "gb"

\* C5: every operation that changed the field's text (a key release ending
\* the typing, a paste, a drop) or the widget's country (dropdown, active
\* country input, re-creation) has emitted a payload after the change.
EveryChangeEmitsPayload ==
    /\ last.op = "keyup" => ~dirty
    /\ last.op \in {"paste", "drop"} /\ last.inserted # <<>> => ~dirty
    /\ last.op = "countrychange" => ~dirty
    /\ last.op = "ngOnChanges" /\ last.calls # <<>> /\ last.threw = "none" => ~dirty

\* C6: whenever the widget's selected country changes, by a country change
\* of the held instance or by its re-creation, activeCountryChange is
\* emitted with the new code.
EveryCountryChangeEmitsCode ==
    [][phase = "attached" /\ phase' = "attached"
       /\ Widget'.country # Widget.country
         => last'.country = <<Widget'.country>>]_vars

\* C7: each countrychange event, dispatched for the dropdown or from within
\* the widget's setCountry, produces one payload read from the widget and
\* the field as they are, followed by one activeCountryChange emission whose
\* code is the iso2 of that payload's country data.
CountryChangeEmitsPayloadThenCode ==
    (last.op = "countrychange" \/ (last.op = "ngOnChanges" /\ last.country # <<>>)) =>
        LET n == Len(last.calls)
            m == Len(last.onChange)
        IN /\ Len(last.country) = 1
           /\ Count("emit activeCountryChange", last.calls) = 1
           /\ m = Count("emit onChange", last.calls)
           /\ m = 1 + Count("intlTelInput", last.calls)
           /\ last.op = "countrychange" => m = 1
           /\ SubSeq(last.calls, n - 1, n) = <<"emit onChange", "emit activeCountryChange">>
           /\ last.onChange[m] = Payload(Widget, text)
           /\ last.country[1] = last.onChange[m].countryData.iso2

\* C7 witness: the dropdown selected gb while the field held a digit.
DropdownChangeEmitted ==
    /\ last.op = "countrychange"
    /\ last.country = <<"gb">>
    /\ text = <<"1">>

\* The text a key release compares with: the text observed at the previous
\* key release, or the field's text at attach (empty) before any.
ObservedText == IF _value = <<>> THEN <<>> ELSE _value[1]

\* C8: a key release emits a payload exactly when the field's text differs
\* from the text observed before, the first key release on an untouched
\* field included, and updates the observed text exactly when it emits.
KeyUpEmitsOnChangedText ==
    [][last'.op = "keyup" =>
         /\ (last'.onChange # <<>>) <=> (text # ObservedText)
         /\ (_value' # _value) <=> (last'.onChange # <<>>)]_vars

\* The HTML pattern attribute: the whole text must match the pattern.
PatternMatches(p, t) ==
    CASE p = "d*" -> \A i \in 1..Len(t) : t[i] = "d"
      [] p = "[0-9]*" -> \A i \in 1..Len(t) : t[i] \in Digits
      [] OTHER -> TRUE

\* A pattern that admits the texts made of digits and no other.
IsDigitPattern(p) ==
    \A t \in {<<>>, <<"1">>, <<"1", "1">>, <<"a">>, <<"d">>} :
        PatternMatches(p, t) <=> (StripNonDigits(t) = t)

\* C9: ngOnInit with numbersOnly set leaves the field constrained to
\* numeric entry (type tel, a digit pattern, maxlength 15); without it the
\* three attributes are untouched; either way it creates exactly one
\* instance, with the options held or {} when none are, and emits exactly
\* one payload read from it.
AttachConstrainsAndCreates ==
    last.op = "ngOnInit" =>
        /\ TruthyFlag(numbersOnly) =>
             /\ attrs.type = "tel"
             /\ IsDigitPattern(attrs.pattern)
             /\ attrs.maxlength = "15"
        /\ ~TruthyFlag(numbersOnly) =>
             /\ attrs.type = "text"
             /\ attrs.pattern = ""
             /\ attrs.maxlength = ""
        /\ Count("intlTelInput", last.calls) = 1
        /\ Len(instances) = 1
        /\ Widget = NewInstance(IF TruthyOptions(intlTelOptions)
                                THEN intlTelOptions ELSE EmptyOptions)
        /\ last.onChange = <<Payload(Widget, text)>>

\* C10: after ngOnDestroy no instance is live and every instance created
\* has been destroyed exactly once; when none was ever created ngOnDestroy
\* calls no destroy and raises no error.
DetachDestroysOnce ==
    last.op = "ngOnDestroy" =>
        /\ Live = {}
        /\ \A i \in 1..Len(instances) : instances[i].destroys = 1
        /\ instances = <<>> =>
             /\ Count("destroy", last.calls) = 0
             /\ last.threw = "none"

\* The digits of a text, in the order they have in it.
DigitsOf(t) == LET IsDigit(c) == c \in Digits IN SelectSeq(t, IsDigit)

\* Where call c stands in a handler's call trace (0 when it is not there).
Position(c, calls) ==
    IF Count(c, calls) = 0 THEN 0
    ELSE CHOOSE i \in 1..Len(calls) :
            /\ calls[i] = c
            /\ \A j \in 1..(i - 1) : calls[j] # c

\* C11: with numbersOnly true a paste prevents the default paste and inserts
\* the digits of the clipboard text, in their order, and nothing else; with
\* numbersOnly false the listener prevents nothing and the clipboard text is
\* pasted as it is.
PasteInsertsDigitsOnly ==
    last.op = "paste" =>
        /\ numbersOnly = "true" =>
             /\ last.prevented
             /\ Count("preventDefault", last.calls) = 1
             /\ Count("insertText", last.calls) = 1
             /\ last.inserted = DigitsOf(last.input)
             /\ text = DigitsOf(last.input)
        /\ numbersOnly = "false" =>
             /\ ~last.prevented
             /\ last.calls = <<>>
             /\ text = last.input

\* C11 witness: a paste of "2a1" with numbersOnly true inserted "21".
PastedDigitsInOrder ==
    /\ last.op = "paste"
    /\ numbersOnly = "true"
    /\ last.input = <<"2", "a", "1">>
    /\ text = <<"2", "1">>

\* C12: with numbersOnly true a drop prevents the default drop, then focuses
\* the field, then inserts the digits of the dropped text; with numbersOnly
\* false the listener prevents nothing, focuses nothing and the dropped text
\* arrives as it is.
DropFocusesThenInserts ==
    last.op = "drop" =>
        /\ numbersOnly = "true" =>
             /\ last.prevented
             /\ Count("preventDefault", last.calls) = 1
             /\ Count("focus", last.calls) = 1
             /\ Count("insertText", last.calls) = 1
             /\ Position("preventDefault", last.calls) < Position("focus", last.calls)
             /\ Position("focus", last.calls) < Position("insertText", last.calls)
             /\ last.inserted = DigitsOf(last.input)
             /\ text = DigitsOf(last.input)
        /\ numbersOnly = "false" =>
             /\ ~last.prevented
             /\ Count("focus", last.calls) = 0
             /\ last.calls = <<>>
             /\ text = last.input

\* C12 witness: a drop of "a12" with numbersOnly true focused the field and
\* inserted "12".
DroppedDigitsAfterFocus ==
    /\ last.op = "drop"
    /\ numbersOnly = "true"
    /\ last.input = <<"a", "1", "2">>
    /\ Count("focus", last.calls) = 1
    /\ text = <<"1", "2">>

\* The keys the key-down filter is said to let through always: Delete,
\* Backspace, Ctrl or Cmd with A, C, V or X, End, Home and the four arrows.
AlwaysAllowedKey(e) ==
    \/ e.keyCode \in {46, 8}
    \/ e.keyCode \in {65, 67, 86, 88} /\ (e.ctrlKey \/ e.metaKey)
    \/ e.keyCode \in {35, 36}
    \/ e.keyCode \in {37, 38, 39, 40}

\* A digit typed on the main row (unshifted) or on the numeric pad.
DigitKey(e) ==
    \/ e.keyCode \in 48..57 /\ ~e.shiftKey
    \/ e.keyCode \in 96..105

\* C13: for every key code and every combination of modifiers, key-down
\* prevents the keystroke exactly when numbersOnly is true, the key is not
\* one of the always-allowed keys and the keystroke is not a digit; with
\* numbersOnly false it prevents none.
KeyDownSuppressesNonDigits ==
    last.op = "keydown" /\ numbersOnly \in {"true", "false"} =>
        (last.prevented <=>
            /\ numbersOnly = "true"
            /\ ~AlwaysAllowedKey(last.input)
            /\ ~DigitKey(last.input))

\* C14: the lookup answers the label of the widget's error code for the
\* five known codes, and none for every other code and for a number the
\* widget deems valid.
ValidationLabelOrNone ==
    last.op = "getValidationError" =>
        last.label =
            IF last.input.valid THEN "null"
            ELSE CASE last.input.code = 0 -> "IS_POSSIBLE"
                   [] last.input.code = 1 -> "INVALID_COUNTRY_CODE"
                   [] last.input.code = 2 -> "TOO_SHORT"
                   [] last.input.code = 3 -> "TOO_LONG"
                   [] last.input.code = 4 -> "NOT_A_NUMBER"
                   [] OTHER -> "null"

\* C19: whatever value numbersOnly holds, the four filters agree: a paste or
\* a drop is intercepted, and a key that is neither always allowed nor a
\* digit is prevented, exactly when attach constrained the field.
FiltersAgreeOnMode ==
    LET constrained == attrs.type = "tel" /\ attrs.maxlength = "15" IN
    /\ last.op \in {"paste", "drop"} => (last.prevented <=> constrained)
    /\ last.op = "keydown" /\ ~AlwaysAllowedKey(last.input) /\ ~DigitKey(last.input)
         => (last.prevented <=> constrained)

\* C15: when ngOnChanges re-creates the widget for changed options, it
\* destroys the instance held, then removes the placeholder attribute, then
\* creates the new instance with the new options, then emits a payload read
\* from the new instance; the placeholder is removed while no instance is
\* live.
OptionsChangeStepsInOrder ==
    (/\ last.op = "ngOnChanges"
     /\ \/ Count("destroy", last.calls) > 0
        \/ Count("removeAttribute placeholder", last.calls) > 0
        \/ Count("intlTelInput", last.calls) > 0) =>
        LET d == Position("destroy", last.calls)
            r == Position("removeAttribute placeholder", last.calls)
            c == Position("intlTelInput", last.calls)
            e == Position("emit onChange", last.calls)
        IN /\ last.optionsChanged
           /\ Count("destroy", last.calls) = 1
           /\ Count("removeAttribute placeholder", last.calls) = 1
           /\ Count("intlTelInput", last.calls) = 1
           /\ 0 < d /\ d < r /\ r < c /\ c < e
           /\ Len(instances) >= 2
           /\ instances[Len(instances) - 1].live = FALSE
           /\ intlTelInputInstance = Len(instances)
           /\ last.onChange[1] = Payload(NewInstance(intlTelOptions), text)

\* C15 witness: an options change re-created the widget with gb selected.
RecreatedForNewOptions ==
    /\ last.op = "ngOnChanges"
    /\ last.optionsChanged
    /\ ~last.countryChanged
    /\ Count("intlTelInput", last.calls) = 1
    /\ intlTelOptions.initialCountry = "gb"
    /\ Widget.country = "gb"

\* C16: the first ngOnChanges, which delivers the first values of the
\* options and of the active country, destroys nothing, creates nothing,
\* sets no country and emits nothing; the instance ngOnInit then creates
\* selects the country of its options, whatever active country was bound.
FirstAssignmentLeavesWidgetAlone ==
    /\ phase = "changed" =>
         /\ last.op = "ngOnChanges"
         /\ last.calls = <<>>
         /\ last.onChange = <<>>
         /\ last.country = <<>>
         /\ last.threw = "none"
         /\ instances = <<>>
         /\ intlTelInputInstance = 0
         /\ hostCountry = activeCountry
    /\ last.op = "ngOnInit" =>
         /\ Count("setCountry", last.calls) = 0
         /\ Widget.country =
              InitialCountry(IF TruthyOptions(intlTelOptions)
                             THEN intlTelOptions ELSE EmptyOptions)

\* C16 witness: options and the active country gb were first assigned.
FirstAssignmentDelivered ==
    /\ phase = "changed"
    /\ TruthyOptions(intlTelOptions)
    /\ activeCountry = "gb"

\* C17: no instance is destroyed twice, the instance the directive holds
\* while attached is live, every payload is read from it, and when options
\* and active country change in one notification the country is set after
\* the re-creation, on the new instance.
NoCallOnDestroyedInstance ==
    /\ \A i \in 1..Len(instances) : instances[i].destroys <= 1
    /\ phase = "attached" =>
         /\ intlTelInputInstance \in Live
         /\ last.threw # "TypeError"
         /\ last.onChange # <<>> =>
              last.onChange[Len(last.onChange)] = Payload(Widget, text)
    /\ (/\ last.op = "ngOnChanges"
        /\ Count("intlTelInput", last.calls) = 1
        /\ Count("setCountry", last.calls) >= 1) =>
         /\ Count("setCountry", last.calls) = 1
         /\ Position("intlTelInput", last.calls) < Position("setCountry", last.calls)
         /\ last.onChange[1] = Payload(NewInstance(intlTelOptions), text)
         /\ last.threw = "none" => Widget.country = ToLowerCase(activeCountry)

\* C17 witness: one notification re-created the widget and set gb on the
\* new instance, which had selected us.
RecreatedThenCountrySet ==
    /\ last.op = "ngOnChanges"
    /\ last.optionsChanged
    /\ last.countryChanged
    /\ Count("intlTelInput", last.calls) = 1
    /\ intlTelOptions.initialCountry = "us"
    /\ last.country = <<"gb">>
    /\ Widget.country = "gb"

\* C18: under a two-way binding a notification leaves a code to write back
\* only when it delivered a code that is not in lower case, and the
\* notification that delivers the written-back code leaves none: without an
\* options change it emits nothing and leaves the widget as it is. The loop
\* one change of the active country starts ends with its second
\* notification at the latest.
FeedbackLoopQuiesces ==
    [][(phase = "attached" /\ last'.op = "ngOnChanges") =>
         /\ hostCountry' # activeCountry' =>
              /\ twoWay
              /\ activeCountry' # ToLowerCase(activeCountry')
              /\ hostCountry' = ToLowerCase(activeCountry')
         /\ (hostCountry # activeCountry /\ activeCountry' = hostCountry) =>
              /\ hostCountry' = activeCountry'
              /\ ~last'.optionsChanged =>
                   /\ last'.country = <<>>
                   /\ Widget' = Widget]_vars

\* C18 witness: the lower-case code written back for GB was delivered and
\* nothing is left to deliver.
WrittenBackCodeDelivered ==
    /\ twoWay
    /\ last.op = "ngOnChanges"
    /\ request.open
    /\ request.code = "GB"
    /\ request.changes = 1
    /\ activeCountry = "gb"
    /\ hostCountry = "gb"
    /\ last.country = <<>>

====
